---- MODULE Spec2Model ----
(***************************************************************************)
(* SampleList.mjs: the virtualized sample list of the results viewer.      *)
(*                                                                         *)
(* The component is a Preact function component.  Its state is the hook    *)
(* state kept between renders (useState / useMemo / useRef / useEffect /   *)
(* useCallback cells), its inputs are the props of each render and the DOM *)
(* events delivered to what it rendered, and its outputs are the element   *)
(* tree it returns, the scrollToIndex calls it makes on listRef.current    *)
(* and the parent callbacks it invokes.                                    *)
(*                                                                         *)
(* One render of SampleList, the effects it schedules and the re-render    *)
(* that a state change inside an effect causes are ONE action (Render).    *)
(*                                                                         *)
(* Numbers: messageShape.normalized values are fractions; they are kept in *)
(* hundredths (0.15 is 15).  JavaScript null / undefined / NaN are the     *)
(* sentinels Null / Undefined / NaN, which no row index or width equals.   *)
(***************************************************************************)
EXTENDS Integers, Sequences, FiniteSets, TLC

VARIABLES props, hooks, out, ev, lastScroll

vars == <<props, hooks, out, ev, lastScroll>>

----------------------------------------------------------------------------
(* Bounds of the explored inputs *)

\* longest items list the parent supplies
MaxLen == 2
\* largest value of a sample item's index field
MaxIndex == 1

----------------------------------------------------------------------------
(* Program constants and JavaScript values *)

kSampleHeight == 88
kSeparatorHeight == 24

\* Math.max(0.15, ...) in gridColumns, in hundredths
MinFr == 15
\* Math.max(2, Math.min(10, raw.id)) and Math.max(3, Math.min(10, raw.score))
MinIdRem == 2
MinScoreRem == 3
MaxRem == 10

Null == -2
Undefined == -1
NaN == -3

Max(a, b) == IF a >= b THEN a ELSE b
Min(a, b) == IF a <= b THEN a ELSE b

\* Math.max / Math.min: NaN if an argument is NaN (undefined converts to NaN)
MathMax(a, b) == IF a = NaN \/ b = NaN THEN NaN ELSE Max(a, b)
MathMin(a, b) == IF a = NaN \/ b = NaN THEN NaN ELSE Min(a, b)

\* a > b on numbers, null and undefined: null converts to 0, undefined to
\* NaN, and every comparison with NaN is false
JsGreater(a, b) ==
  IF a = Undefined \/ b = Undefined THEN FALSE
  ELSE (IF a = Null THEN 0 ELSE a) > (IF b = Null THEN 0 ELSE b)

\* arr[i] of a JavaScript array (0-based), undefined outside it
JsAt(arr, i) == IF i \in 0..(Len(arr) - 1) THEN arr[i + 1] ELSE Undefined

----------------------------------------------------------------------------
(* List items (SamplesTab.ListItem)                                        *)
(* type: "sample" | "separator" | anything else ("other")                 *)
(* index: the display index of a sample                                    *)
(* title: item.data of a separator (a string)                              *)
(* error / limit: item.data.error / item.data.limit is truthy; a           *)
(* separator's data is a string, which has neither property                *)

SampleItems ==
  [type : {"sample"}, index : 0..MaxIndex, title : {""},
   error : BOOLEAN, limit : BOOLEAN]
SeparatorItems ==
  [type : {"separator"}, index : {0}, title : {"group"},
   error : {FALSE}, limit : {FALSE}]
OtherItems ==
  [type : {"other"}, index : {0}, title : {""},
   error : BOOLEAN, limit : {FALSE}]
Items == SampleItems \cup SeparatorItems \cup OtherItems

SeqsUpTo(S, n) == UNION {[1..k -> S] : k \in 0..n}

\* array objects: an identity and the elements; the empty list has identity 0
EmptyArray == [id |-> 0, elems |-> <<>>]
ArrayIds == 1..2

----------------------------------------------------------------------------
(* gridColumns, lines 388-427 *)

\* frSize: "0" is [n |-> 0, unit |-> ""], `${val}fr` is [n |-> val, unit |-> "fr"]
frSize(val) ==
  IF val = 0 THEN [n |-> 0, unit |-> ""] ELSE [n |-> val, unit |-> "fr"]

\* variant: no minimum width
frColumn_NoMinimum(d, col) ==
  IF d.defined /\ d.normalized[col] > 0 THEN d.normalized[col] ELSE 0

\* one of the input / target / answer / limit columns
frColumn(d, col) ==
  IF d.defined /\ d.normalized[col] > 0 THEN Max(MinFr, d.normalized[col]) ELSE 0

gridColumns(d) ==
  LET id == MathMax(MinIdRem, MathMin(MaxRem, IF d.defined THEN d.raw.id ELSE NaN))
      score == MathMax(MinScoreRem, MathMin(MaxRem, IF d.defined THEN d.raw.score ELSE NaN))
  IN [input |-> frSize(frColumn(d, "input")),
      target |-> frSize(frColumn(d, "target")),
      answer |-> frSize(frColumn(d, "answer")),
      limit |-> frSize(frColumn(d, "limit")),
      id |-> [n |-> id, unit |-> "rem"],
      score |-> [n |-> score, unit |-> "rem"]]

\* gridTemplateColumns of gridColumnStyles
gridColumnStyles(d) ==
  LET g == gridColumns(d)
  IN <<g.id, g.input, g.target, g.answer, g.limit, g.score>>

Zero == frSize(0)

\* the six header cells
headerRow(d) ==
  LET g == gridColumns(d)
  IN <<"Id",
       IF g.input # Zero THEN "Input" ELSE "",
       IF g.target # Zero THEN "Target" ELSE "",
       IF g.answer # Zero THEN "Answer" ELSE "",
       IF g.limit # Zero THEN "Limit" ELSE "",
       "Score">>

----------------------------------------------------------------------------
(* SampleList, lines 36-232: the pure part of one render *)

\* variant: the empty state is never taken
IsEmptyState_Never(items) == FALSE

\* line 50: items.length === 0
IsEmptyState(items) == Len(items) = 0

\* variant: separators are not skipped
itemRowMapping_AllRows(items) == [i \in 1..Len(items) |-> i - 1]

\* lines 60-68: the positions (0-based) of the items of type "sample"
itemRowMapping(items) ==
  LET positions == [i \in 1..Len(items) |-> i - 1]
  IN SelectSeq(positions, LAMBDA k : items[k + 1].type = "sample")

\* lines 83-109: what the virtual list renders for one item
NoRow ==
  [kind |-> "", height |-> 0, index |-> 0, selected |-> FALSE,
   title |-> "", showSample |-> 0]

renderRow(item, p) ==
  IF item.type = "sample"
  THEN [kind |-> "SampleRow", height |-> kSampleHeight, index |-> item.index,
        selected |-> (p.selectedIndex = item.index), title |-> "",
        showSample |-> p.showSample]
  ELSE IF item.type = "separator"
  THEN [kind |-> "SeparatorRow", height |-> kSeparatorHeight, index |-> 0,
        selected |-> FALSE, title |-> item.title, showSample |-> 0]
  ELSE NoRow

\* variant: every item is counted
sampleCount_AllItems(items) == Len(items)

\* lines 157-163, 181-188, 191-198: the three reduce() counts
sampleCount(items) == Cardinality({i \in 1..Len(items) : items[i].type = "sample"})
errorCount(items) == Cardinality({i \in 1..Len(items) : items[i].error})
limitCount(items) == Cardinality({i \in 1..Len(items) : items[i].limit})

\* lines 202-216: the MessageBand, or "" when there is no message.  The
\* percentage in the text comes from formatNoDecimal and is not modelled.
NoBanner == [present |-> FALSE, text |-> "", count |-> 0, total |-> 0, hidden |-> FALSE]

\* variant: the limit message takes precedence
warningRow_LimitFirst(items, hidden) ==
  IF limitCount(items) # 0
  THEN [present |-> TRUE, text |-> "completed due to exceeding a limit",
        count |-> limitCount(items), total |-> sampleCount(items), hidden |-> hidden]
  ELSE IF errorCount(items) > 0
  THEN [present |-> TRUE, text |-> "had errors and were not scored",
        count |-> errorCount(items), total |-> sampleCount(items), hidden |-> hidden]
  ELSE NoBanner

warningRow(items, hidden) ==
  IF errorCount(items) > 0
  THEN [present |-> TRUE, text |-> "had errors and were not scored",
        count |-> errorCount(items), total |-> sampleCount(items), hidden |-> hidden]
  ELSE IF limitCount(items) # 0
  THEN [present |-> TRUE, text |-> "completed due to exceeding a limit",
        count |-> limitCount(items), total |-> sampleCount(items), hidden |-> hidden]
  ELSE NoBanner

\* line 51: the empty state
EmptyPanel ==
  [kind |-> "EmptyPanel", text |-> "No Samples", banner |-> NoBanner,
   header |-> <<>>, columns |-> <<>>, data |-> <<>>, rows |-> <<>>,
   footer |-> <<>>]

\* lines 218-231: banner, header, virtual list (its data and the row each
\* item renders to) and footer ("N Samples")
ListView(p, hidden) ==
  [kind |-> "List", text |-> "",
   banner |-> warningRow(p.items.elems, hidden),
   header |-> headerRow(p.sampleDescriptor),
   columns |-> gridColumnStyles(p.sampleDescriptor),
   data |-> p.items.elems,
   rows |-> [i \in 1..Len(p.items.elems) |-> renderRow(p.items.elems[i], p)],
   footer |-> <<sampleCount(p.items.elems)>>]

\* variant: "up" only when the row is smaller
ScrollDirection_NotLess(actualRowIndex, prev) ==
  IF JsGreater(prev, actualRowIndex) THEN "up" ELSE "down"

\* lines 75-76
ScrollDirection(actualRowIndex, prev) ==
  IF JsGreater(actualRowIndex, prev) THEN "down" ELSE "up"

\* lines 111-130: the body of onkeydown, for a closure c that captured
\* selectedIndex and the three callbacks
NoCalls == [calls |-> <<>>, preventDefault |-> FALSE, stopPropagation |-> FALSE]
Handled(call) == [calls |-> <<call>>, preventDefault |-> TRUE, stopPropagation |-> TRUE]

onkeydown(c, key) ==
  IF key = "ArrowUp"
  THEN Handled([fn |-> "prevSample", ver |-> c.prevSample, args |-> <<>>])
  ELSE IF key = "ArrowDown"
  THEN Handled([fn |-> "nextSample", ver |-> c.nextSample, args |-> <<>>])
  ELSE IF key = "Enter"
  THEN Handled([fn |-> "showSample", ver |-> c.showSample, args |-> <<c.selectedIndex>>])
  ELSE NoCalls

\* what the function created at lines 112-130 closes over
Closure(p) ==
  [selectedIndex |-> p.selectedIndex, prevSample |-> p.prevSample,
   nextSample |-> p.nextSample, showSample |-> p.showSample]

----------------------------------------------------------------------------
(* Hook dependency lists.  A hook re-runs when it has not run before or   *)
(* when an element of its list is not identical (!==) to the stored one.  *)

\* line 57: [items]
HiddenDeps(p) == <<p.items.id>>
\* line 68: [items]
MappingDeps(p) == <<p.items.id>>
\* line 80: [selectedIndex, listRef, itemRowMapping]; the mapping array is
\* named by the items array it was computed from
ScrollDeps(p, mappingId) == <<p.selectedIndex, p.listRef, mappingId>>
\* variant: an empty dependency list
KeydownDeps_None(p) == <<>>

\* line 131: [selectedIndex]
KeydownDeps(p) == <<p.selectedIndex>>

argsChanged(ran, old, new) == ~ran \/ old # new

\* the hook cells before the first render that reaches the hooks
BlankHooks ==
  [ran |-> FALSE,
   hidden |-> FALSE, hiddenDeps |-> <<0>>,
   mappingDeps |-> <<0>>, mappingOf |-> <<>>, itemRowMapping |-> <<>>,
   prevSelectedIndexRef |-> Null, scrollDeps |-> <<0, 0, 0>>,
   keydownDeps |-> <<0>>,
   onkeydown |-> [selectedIndex |-> 0, prevSample |-> 0, nextSample |-> 0, showSample |-> 0]]

----------------------------------------------------------------------------
(* One call of SampleList(props) with hook cells h, the effects it         *)
(* schedules (in declaration order) and the re-render that setHidden       *)
(* causes.  mounted: listRef.current is set when the effects run.          *)
(* ls: the latest scrollToIndex call received by the list so far.          *)

RenderEvent(mounted, scroll) ==
  [action |-> "render", key |-> "", calls |-> <<>>, preventDefault |-> FALSE,
   stopPropagation |-> FALSE, mounted |-> mounted, scroll |-> scroll]

SampleList(h, ls, p, mounted) ==
  LET items == p.items.elems IN
  IF IsEmptyState(items)
  THEN \* lines 50-52: return before any hook is called; the cells stay
       [props |-> p, hooks |-> h, out |-> EmptyPanel,
        ev |-> RenderEvent(FALSE, <<>>), lastScroll |-> ls]
  ELSE
    LET \* lines 54-57
        hiddenRun == argsChanged(h.ran, h.hiddenDeps, HiddenDeps(p))
        \* lines 60-68
        mappingRun == argsChanged(h.ran, h.mappingDeps, MappingDeps(p))
        mapping == IF mappingRun THEN itemRowMapping(items) ELSE h.itemRowMapping
        mappingId == IF mappingRun THEN p.items.id ELSE h.mappingDeps[1]
        \* lines 70-80
        scrollRun == argsChanged(h.ran, h.scrollDeps, ScrollDeps(p, mappingId))
        \* lines 111-132
        keydownRun == argsChanged(h.ran, h.keydownDeps, KeydownDeps(p))
        \* effect of line 56; the re-render it causes changes no dependency
        hidden == IF hiddenRun THEN FALSE ELSE h.hidden
        \* effect of lines 72-79
        scrolls == scrollRun /\ mounted
        actualRowIndex == JsAt(mapping, p.selectedIndex)
        call == [row |-> actualRowIndex,
                 direction |-> ScrollDirection(actualRowIndex, h.prevSelectedIndexRef)]
    IN [props |-> p,
        hooks |->
          [ran |-> TRUE,
           hidden |-> hidden,
           hiddenDeps |-> HiddenDeps(p),
           mappingDeps |-> MappingDeps(p),
           mappingOf |-> items,
           itemRowMapping |-> mapping,
           prevSelectedIndexRef |->
             IF scrolls THEN actualRowIndex ELSE h.prevSelectedIndexRef,
           scrollDeps |-> ScrollDeps(p, mappingId),
           keydownDeps |-> KeydownDeps(p),
           onkeydown |-> IF keydownRun THEN Closure(p) ELSE h.onkeydown],
        out |-> ListView(p, hidden),
        ev |-> RenderEvent(mounted, IF scrolls THEN <<call>> ELSE <<>>),
        lastScroll |-> IF scrolls THEN <<call>> ELSE ls]

Commit(r) ==
  /\ props' = r.props
  /\ hooks' = r.hooks
  /\ out' = r.out
  /\ ev' = r.ev
  /\ lastScroll' = r.lastScroll

\* An array object keeps its elements: the parent passes either an object
\* the hooks still reference, unchanged, or another object.
SameObject(h, p) ==
  (h.ran /\ p.items.id = h.mappingDeps[1]) => p.items.elems = h.mappingOf

----------------------------------------------------------------------------
(* Actions *)

\* the parent renders the component with props p
Render(p, mounted) ==
  /\ SameObject(hooks, p)
  /\ Commit(SampleList(hooks, lastScroll, p, mounted))

\* MessageBand calls setHidden(true); the component re-renders
Dismiss ==
  /\ out.kind = "List"
  /\ out.banner.present
  /\ ~hooks.hidden
  /\ LET r == SampleList([hooks EXCEPT !.hidden = TRUE], lastScroll, props, FALSE)
     IN Commit([r EXCEPT !.ev.action = "setHidden"])

\* a keydown event on the virtual list, which holds the memoized onkeydown
KeyDown(key) ==
  /\ out.kind = "List"
  /\ LET r == onkeydown(hooks.onkeydown, key)
     IN ev' = [action |-> "keydown", key |-> key, calls |-> r.calls,
               preventDefault |-> r.preventDefault,
               stopPropagation |-> r.stopPropagation,
               mounted |-> FALSE, scroll |-> <<>>]
  /\ UNCHANGED <<props, hooks, out, lastScroll>>

\* lines 285-287: a click on the i-th rendered row, a SampleRow
Click(i) ==
  /\ out.kind = "List"
  /\ i \in 1..Len(out.rows)
  /\ out.rows[i].kind = "SampleRow"
  /\ ev' = [action |-> "click", key |-> "",
            calls |-> <<[fn |-> "showSample", ver |-> out.rows[i].showSample,
                         args |-> <<out.rows[i].index>>]>>,
            preventDefault |-> FALSE, stopPropagation |-> FALSE,
            mounted |-> FALSE, scroll |-> <<>>]
  /\ UNCHANGED <<props, hooks, out, lastScroll>>

----------------------------------------------------------------------------
(* What the parent supplies *)

Sample(i) == [type |-> "sample", index |-> i, title |-> "", error |-> FALSE, limit |-> FALSE]
Separator == [type |-> "separator", index |-> 0, title |-> "group", error |-> FALSE, limit |-> FALSE]

\* the sample items numbered 0, 1, ... in list order, as SamplesTab does
Renumber(items) ==
  [i \in 1..Len(items) |->
     IF items[i].type = "sample"
     THEN [items[i] EXCEPT !.index =
             Cardinality({j \in 1..(i - 1) : items[j].type = "sample"})]
     ELSE items[i]]

NonEmptySeqs(S) == SeqsUpTo(S, MaxLen) \ {<<>>}

\* lists of samples and separators, samples numbered in order
ScrollContents == {Renumber(s) : s \in NonEmptySeqs({Sample(0), Separator})}
\* lists over every item type and every error / limit flag, samples numbered
FlagContents ==
  {Renumber(s) : s \in NonEmptySeqs({it \in Items : it.index = 0})}
\* lists of samples and separators with any index field
IndexContents == NonEmptySeqs({Sample(i) : i \in 0..MaxIndex} \cup {Separator})
ViewContents == FlagContents \cup IndexContents

SelectedIndexes == -1..(MaxLen - 1)
\* ref objects the parent may pass as listRef
ListRefs == {1, 2}
\* a callback is the function object of an earlier render or a new one
Versions == {1, 2}
Keys == {"ArrowUp", "ArrowDown", "Enter", "Escape"}

Descriptor(i, t, a, l, id, score) ==
  [defined |-> TRUE,
   normalized |-> [input |-> i, target |-> t, answer |-> a, limit |-> l],
   raw |-> [id |-> id, score |-> score]]
DefaultDescriptor == Descriptor(50, 20, 30, 0, 4, 4)
\* sampleDescriptor is undefined
NoDescriptor == [Descriptor(0, 0, 0, 0, 0, 0) EXCEPT !.defined = FALSE]
NormalizedValues == {0, 10, 20, 50}
RawValues == {1, 5, 12}
Descriptors ==
  {NoDescriptor} \cup
  {Descriptor(i, t, a, l, id, score) :
     i \in NormalizedValues, t \in NormalizedValues, a \in NormalizedValues,
     l \in NormalizedValues, id \in RawValues, score \in RawValues}

InitialProps ==
  [items |-> EmptyArray, selectedIndex |-> -1, listRef |-> 1,
   nextSample |-> 1, prevSample |-> 1, showSample |-> 1,
   sampleDescriptor |-> DefaultDescriptor]

Unrendered ==
  [kind |-> "", text |-> "", banner |-> NoBanner, header |-> <<>>,
   columns |-> <<>>, data |-> <<>>, rows |-> <<>>, footer |-> <<>>]

NoEvent ==
  [action |-> "", key |-> "", calls |-> <<>>, preventDefault |-> FALSE,
   stopPropagation |-> FALSE, mounted |-> FALSE, scroll |-> <<>>]

Arrays(contents) == {EmptyArray} \cup [id : ArrayIds, elems : contents]

----------------------------------------------------------------------------
(* Spec: scrolling.  The parent renders any list of samples and            *)
(* separators, any selectedIndex, with the list mounted or not.            *)

Init ==
  /\ props = InitialProps
  /\ hooks = BlankHooks
  /\ out = Unrendered
  /\ ev = NoEvent
  /\ lastScroll = <<>>

Next ==
  \E a \in Arrays(ScrollContents), sel \in SelectedIndexes, mounted \in BOOLEAN :
    Render([props EXCEPT !.items = a, !.selectedIndex = sel], mounted)

Spec == Init /\ [][Next]_vars

(* SpecView: what is rendered.  The parent holds one list, of any item     *)
(* types and flags; it passes that array, a copy of it, or the empty list. *)

Mounted(r) ==
  /\ props = r.props
  /\ hooks = r.hooks
  /\ out = r.out
  /\ ev = r.ev
  /\ lastScroll = r.lastScroll

InitView ==
  \E c \in ViewContents, sel \in SelectedIndexes :
    Mounted(SampleList(BlankHooks, <<>>,
                       [InitialProps EXCEPT !.items = [id |-> 1, elems |-> c],
                                            !.selectedIndex = sel], TRUE))

RenderView ==
  \E a \in Arrays({hooks.mappingOf}), sel \in SelectedIndexes, mounted \in BOOLEAN :
    Render([props EXCEPT !.items = a, !.selectedIndex = sel], mounted)

NextView == RenderView \/ Dismiss

SpecView == InitView /\ [][NextView]_vars

(* SpecKeys: keyboard and mouse.  The parent renders a list of two         *)
(* samples or the empty list, with any selectedIndex, listRef and          *)
(* callbacks.                                                              *)

KeyArrays == {EmptyArray, [id |-> 1, elems |-> <<Sample(0), Sample(1)>>]}

RenderKeys ==
  \E a \in KeyArrays, sel \in SelectedIndexes, ref \in ListRefs,
     n \in Versions, pv \in Versions, sh \in Versions :
    Render([props EXCEPT !.items = a, !.selectedIndex = sel, !.listRef = ref,
                         !.nextSample = n, !.prevSample = pv, !.showSample = sh],
           TRUE)

NextKeys ==
  \/ RenderKeys
  \/ \E key \in Keys : KeyDown(key)
  \/ \E i \in 1..MaxLen : Click(i)

SpecKeys == Init /\ [][NextKeys]_vars

(* SpecCols: column widths.  The descriptor is drawn at the first render   *)
(* and kept.                                                               *)

InitCols ==
  \E d \in Descriptors :
    Mounted(SampleList(BlankHooks, <<>>,
                       [InitialProps EXCEPT !.items = [id |-> 1, elems |-> <<Sample(0)>>],
                                            !.selectedIndex = 0,
                                            !.sampleDescriptor = d], TRUE))

NextCols ==
  \E a \in Arrays({<<Sample(0)>>}) :
    Render([props EXCEPT !.items = a], TRUE)

SpecCols == InitCols /\ [][NextCols]_vars

----------------------------------------------------------------------------
(* Properties *)

\* what the properties count, independently of the component's own counts
CountOf(items, Q(_)) == Cardinality({i \in 1..Len(items) : Q(items[i])})
IsSample(item) == item.type = "sample"
NumSamples(items) == CountOf(items, IsSample)
\* the position (0-based) of the n-th (0-based) item of type "sample"
SamplePosition(items, n) ==
  CHOOSE k \in 0..(Len(items) - 1) :
    /\ IsSample(items[k + 1])
    /\ NumSamples(SubSeq(items, 1, k)) = n
SelectionInRange(p) == p.selectedIndex \in 0..(NumSamples(p.items.elems) - 1)
\* every sample item's index field is its ordinal among the sample items
Indexed(items) ==
  \A i \in 1..Len(items) :
    IsSample(items[i]) => items[i].index = NumSamples(SubSeq(items, 1, i - 1))

\* C1: a render with an empty items list yields only the empty-state panel
\* ("No Samples"), with no banner, header, list or footer, and makes no
\* scrollToIndex call, whatever selectedIndex is.
C1_EmptyState ==
  (ev.action = "render" /\ Len(props.items.elems) = 0) =>
    /\ out.kind = "EmptyPanel"
    /\ out.text = "No Samples"
    /\ ~out.banner.present
    /\ out.header = <<>>
    /\ out.data = <<>>
    /\ out.rows = <<>>
    /\ out.footer = <<>>
    /\ ev.scroll = <<>>

\* an empty list rendered after a list was shown, with a selection
C1_Witness ==
  /\ ev.action = "render"
  /\ Len(props.items.elems) = 0
  /\ out.kind = "EmptyPanel"
  /\ hooks.ran
  /\ props.selectedIndex = 1

\* C2: every render that changes selectedIndex or items, with a non-empty
\* list, the selection in range and listRef.current mounted, makes exactly
\* one scrollToIndex call, to the row of the selectedIndex-th sample item.
C2_ScrollOnChange ==
  [][(/\ ev'.action = "render"
      /\ Len(props'.items.elems) > 0
      /\ SelectionInRange(props')
      /\ ev'.mounted
      /\ (props'.items # props.items \/ props'.selectedIndex # props.selectedIndex))
     => (/\ Len(ev'.scroll) = 1
         /\ ev'.scroll[1].row = SamplePosition(props'.items.elems, props'.selectedIndex)
         /\ IsSample(props'.items.elems[ev'.scroll[1].row + 1]))]_vars

\* C3 as stated: the input / target / answer / limit widths are in the
\* ratio of the supplied normalized values, and a value 0 gets width "0".
Columns == {"input", "target", "answer", "limit"}
WidthOf(col) ==
  out.columns[CASE col = "input" -> 2 [] col = "target" -> 3
                [] col = "answer" -> 4 [] col = "limit" -> 5]
C3_Proportional ==
  (out.kind = "List" /\ props.sampleDescriptor.defined) =>
    LET v == props.sampleDescriptor.normalized IN
    /\ \A a \in Columns : v[a] = 0 => WidthOf(a) = [n |-> 0, unit |-> ""]
    /\ \A a, b \in Columns : WidthOf(a).n * v[b] = WidthOf(b).n * v[a]

\* C3 amended: a column's width is "0" when the supplied value is 0 and
\* max(0.15, value) fr otherwise, so the widths are in the ratio of the
\* supplied values among the columns whose value is at least 0.15.
C3_ProportionalAboveMinimum ==
  (out.kind = "List" /\ props.sampleDescriptor.defined) =>
    LET v == props.sampleDescriptor.normalized IN
    /\ \A a \in Columns :
         /\ v[a] = 0 => WidthOf(a) = [n |-> 0, unit |-> ""]
         /\ v[a] > 0 => WidthOf(a) = [n |-> IF v[a] < 15 THEN 15 ELSE v[a], unit |-> "fr"]
    /\ \A a, b \in Columns :
         (v[a] >= 15 /\ v[b] >= 15) => WidthOf(a).n * v[b] = WidthOf(b).n * v[a]

\* a value below the minimum next to two different values above it
C3_Witness ==
  /\ out.kind = "List"
  /\ props.sampleDescriptor.defined
  /\ props.sampleDescriptor.normalized.input = 10
  /\ props.sampleDescriptor.normalized.target = 20
  /\ props.sampleDescriptor.normalized.answer = 50
  /\ props.sampleDescriptor.normalized.limit = 0
  /\ out.columns[2] = [n |-> 15, unit |-> "fr"]
  /\ out.columns[5] = [n |-> 0, unit |-> ""]

\* C4: the virtual list gets the items unchanged and in order; an item
\* renders as a sample row of height 88, a separator row of height 24
\* titled with its data, or nothing, by its type; the footer counts the
\* items of type "sample".
C4_TypeDeterminesRow ==
  out.kind = "List" =>
    LET items == props.items.elems IN
    /\ out.data = items
    /\ Len(out.rows) = Len(items)
    /\ \A i \in 1..Len(items) :
         /\ items[i].type = "sample" =>
              (out.rows[i].kind = "SampleRow" /\ out.rows[i].height = 88)
         /\ items[i].type = "separator" =>
              (/\ out.rows[i].kind = "SeparatorRow"
               /\ out.rows[i].height = 24
               /\ out.rows[i].title = items[i].title)
         /\ items[i].type \notin {"sample", "separator"} => out.rows[i].kind = ""
    /\ out.footer = <<NumSamples(items)>>

\* a separator followed by a sample: two rows, "1 Samples"
C4_Witness ==
  /\ out.kind = "List"
  /\ Len(out.rows) = 2
  /\ out.data[1].type = "separator"
  /\ out.rows[1].kind = "SeparatorRow"
  /\ out.rows[2].kind = "SampleRow"
  /\ out.footer = <<1>>

\* C5: a keydown with ArrowUp calls prevSample once, with ArrowDown
\* nextSample once, with Enter showSample once with the selectedIndex of
\* the latest render, each preventing the default and stopping
\* propagation; another key calls nothing and leaves the event alone;
\* setSelectedIndex is never called.
C5_KeyDispatch ==
  /\ \A i \in 1..Len(ev.calls) : ev.calls[i].fn # "setSelectedIndex"
  /\ ev.action = "keydown" =>
       IF ev.key \in {"ArrowUp", "ArrowDown", "Enter"}
       THEN /\ Len(ev.calls) = 1
            /\ ev.calls[1].fn = (CASE ev.key = "ArrowUp" -> "prevSample"
                                   [] ev.key = "ArrowDown" -> "nextSample"
                                   [] ev.key = "Enter" -> "showSample")
            /\ ev.calls[1].args =
                 (IF ev.key = "Enter" THEN <<props.selectedIndex>> ELSE <<>>)
            /\ ev.preventDefault
            /\ ev.stopPropagation
       ELSE /\ ev.calls = <<>>
            /\ ~ev.preventDefault
            /\ ~ev.stopPropagation

\* Enter after the selection moved from 0 to 1
C5_Witness ==
  /\ ev.action = "keydown"
  /\ ev.key = "Enter"
  /\ props.selectedIndex = 1
  /\ ev.calls = <<[fn |-> "showSample", ver |-> props.showSample, args |-> <<1>>]>>

\* C6: with a non-empty list the banner is present iff some item's data
\* has an error or a limit; with an error it is the "had errors" message
\* reporting errorCount of sampleCount, also when limits are present;
\* otherwise the "exceeding a limit" message reporting limitCount of
\* sampleCount; the count is at most the total when only sample items
\* carry an error or a limit.
HasError(item) == item.error
HasLimit(item) == item.limit
C6_Banner ==
  out.kind = "List" =>
    LET items == props.items.elems
        errors == CountOf(items, HasError)
        limits == CountOf(items, HasLimit)
    IN /\ out.banner.present <=> (errors > 0 \/ limits > 0)
       /\ errors > 0 =>
            /\ out.banner.text = "had errors and were not scored"
            /\ out.banner.count = errors
            /\ out.banner.total = NumSamples(items)
       /\ (errors = 0 /\ limits > 0) =>
            /\ out.banner.text = "completed due to exceeding a limit"
            /\ out.banner.count = limits
            /\ out.banner.total = NumSamples(items)
       /\ (\A i \in 1..Len(items) :
             (items[i].error \/ items[i].limit) => IsSample(items[i]))
            => out.banner.count <= out.banner.total

\* one sample with an error, another with a limit: the error message
C6_Witness ==
  /\ out.kind = "List"
  /\ CountOf(props.items.elems, HasLimit) = 1
  /\ CountOf(props.items.elems, HasError) = 1
  /\ NumSamples(props.items.elems) = 2
  /\ out.banner.present
  /\ out.banner.text = "had errors and were not scored"
  /\ out.banner.count = 1
  /\ out.banner.total = 2

\* C7: hidden starts false; a render with the same items keeps it; every
\* render that changes items shows the banner again.
C7_HiddenReset ==
  /\ ~hooks.hidden
  /\ [][/\ (ev'.action = "render" /\ props'.items = props.items)
             => hooks'.hidden = hooks.hidden
        /\ (ev'.action = "render" /\ props'.items # props.items /\ out'.banner.present)
             => (~hooks'.hidden /\ ~out'.banner.hidden)]_vars

\* C8: a scrollToIndex call passes "down" exactly when its row is greater
\* than the row of the previous call (than 0 when there was none; an
\* undefined row is not greater than any row, nor any row than it), and
\* prevSelectedIndexRef changes only with a call, to the row of that call.
C8_Direction ==
  [][/\ ev'.scroll = <<>> => hooks'.prevSelectedIndexRef = hooks.prevSelectedIndexRef
     /\ ev'.scroll # <<>> =>
          LET row == ev'.scroll[1].row
              previous == IF lastScroll = <<>> THEN 0 ELSE lastScroll[1].row
          IN /\ Len(ev'.scroll) = 1
             /\ ev'.mounted
             /\ lastScroll' = ev'.scroll
             /\ hooks'.prevSelectedIndexRef = row
             /\ ev'.scroll[1].direction = "down" <=>
                  (row # Undefined /\ previous # Undefined /\ row > previous)]_vars

\* a second scroll to the row of the first one: "up"
C8_Witness ==
  /\ ev.scroll = <<[row |-> 1, direction |-> "up"]>>
  /\ lastScroll = ev.scroll
  /\ hooks.prevSelectedIndexRef = 1

\* C9: with every sample item's index equal to its ordinal and the
\* selection in range, exactly one row is rendered selected, and it is
\* the row the mapping gives and scrollToIndex is called with.
C9_HighlightIsScrollTarget ==
  (out.kind = "List" /\ Indexed(props.items.elems) /\ SelectionInRange(props)) =>
    \E i \in 1..Len(out.rows) :
      /\ out.rows[i].selected
      /\ \A j \in 1..Len(out.rows) : out.rows[j].selected => j = i
      /\ JsAt(hooks.itemRowMapping, props.selectedIndex) = i - 1
      /\ ev.scroll # <<>> => ev.scroll[1].row = i - 1

\* a separator before the selected sample: row 1 is highlighted and scrolled to
C9_Witness ==
  /\ out.kind = "List"
  /\ Len(out.rows) = 2
  /\ out.data[1].type = "separator"
  /\ props.selectedIndex = 0
  /\ out.rows[2].selected
  /\ ev.scroll = <<[row |-> 1, direction |-> "down"]>>

\* C10: a keydown invokes the nextSample / prevSample / showSample
\* function of the latest render.
C10_NoStaleCallback ==
  (ev.action = "keydown" /\ ev.calls # <<>>) =>
    ev.calls[1].ver = (CASE ev.calls[1].fn = "prevSample" -> props.prevSample
                         [] ev.calls[1].fn = "nextSample" -> props.nextSample
                         [] ev.calls[1].fn = "showSample" -> props.showSample)

====
